---- MODULE Spec2Model ----
(***************************************************************************)
(* Model of the multi-agent document pipeline (src/agents.py) and of the   *)
(* multi-document coordinator (src/chat.py).                               *)
(*                                                                         *)
(* Strings are modelled as sequences of tokens.  The two substrings the    *)
(* code searches for, "Error" and "No relevant documents", are tokens of   *)
(* their own, so `"Error" in s` is membership of the token in s, string    *)
(* concatenation and f-strings are \o, and `not s` is s = <<>>.            *)
(*                                                                         *)
(* A call that may raise yields an outcome record: Ret(v) for a normal     *)
(* return of v, Raise(r) for an exception whose str() is r.  Every         *)
(* outcome also carries the collaborator calls made while producing it.    *)
(***************************************************************************)
EXTENDS Naturals, Sequences, FiniteSets, TLC

\* ---------------------------------------------------------------- bounds
MaxDocs == 2        \* longest list of chunks a retriever returns
MaxTargets == 3     \* most documents selected for one multi-document query
MaxShelf == 2       \* most documents, and file names, one session deals with
MaxChat == 2        \* most pipeline executions chat_tab starts in a session

\* ------------------------------------------------------- text primitives
ErrorTok == "Error"
NoRelTok == "No relevant documents"

HasTok(s, tok) == \E i \in DOMAIN s : s[i] = tok
HasError(s) == HasTok(s, ErrorTok)
HasNoRel(s) == HasTok(s, NoRelTok)

\* s occurs in t as a contiguous run of tokens
Occurs(s, t) ==
    \E i \in 0..Len(t) :
        /\ i + Len(s) <= Len(t)
        /\ \A j \in 1..Len(s) : t[i + j] = s[j]

EmptyResultMarker == <<NoRelTok, " found for the query.">>

Ret(v) == [kind |-> "return", val |-> v, calls |-> <<>>]
RetC(v, c) == [kind |-> "return", val |-> v, calls |-> c]
RaiseC(r, c) == [kind |-> "raise", val |-> r, calls |-> c]

Num(i) == IF i = 1 THEN "1" ELSE IF i = 2 THEN "2" ELSE IF i = 3 THEN "3" ELSE "n"

UpperTok(t) ==
    CASE t = "txt" -> "TXT"
      [] t = "pdf" -> "PDF"
      [] t = "Unknown" -> "UNKNOWN"
      [] OTHER -> t
Upper(s) == [i \in DOMAIN s |-> UpperTok(s[i])]

\* dict.get(key, default)
Get(m, key, default) == IF key \in DOMAIN m THEN m[key] ELSE default

\* --------------------------------------------------------- collaborators
Caps == {"get_relevant_documents", "invoke", "__call__"}
Reasons == {<<"quota exceeded">>}

Chunks ==
    { [page_content |-> <<"Photosynthesis">>,
       metadata |-> [source_file |-> <<"bio.txt">>, file_format |-> <<"txt">>]],
      [page_content |-> <<"plain text">>,
       metadata |-> [file_size |-> <<"10">>]],
      [page_content |-> <<"the word ", ErrorTok, " in a chunk">>,
       metadata |-> [source_file |-> <<"spec.pdf">>, file_format |-> <<"pdf">>]],
      [page_content |-> <<"plain text">>,
       metadata |-> [source_file |-> <<ErrorTok, "_log.txt">>, file_format |-> <<"txt">>]] }

RECURSIVE SeqsUpTo(_, _)
SeqsUpTo(S, n) ==
    IF n = 0 THEN {<<>>}
    ELSE LET shorter == SeqsUpTo(S, n - 1)
         IN shorter \cup {Append(s, x) : s \in {t \in shorter : Len(t) = n - 1}, x \in S}

\* what the retriever's search method does when called
SearchOutcomes ==
    {RaiseC(r, <<>>) : r \in Reasons} \cup {Ret(d) : d \in SeqsUpTo(Chunks, MaxDocs)}

Retrievers == [caps : SUBSET Caps, out : SearchOutcomes]

\* what model.generate_content does when called
GenTexts == {<<"generated text">>, <<"text with ", ErrorTok>>, <<NoRelTok, " in the text">>}
GenOutcomes == {RaiseC(r, <<>>) : r \in Reasons} \cup {Ret(t) : t \in GenTexts}

Queries == {<<"What is the main topic of this document?">>}

Envs == [retr : Retrievers, sumGen : GenOutcomes, anaGen : GenOutcomes]

\* ------------------------------------------------------------------ tools
ToolNames == {"retriever", "summarizer", "analyzer", "formatter", "citations"}

\* mutant: a chunk without source_file gets an empty name
DocumentHeader_NoDefault(doc, i) ==
    LET source == Get(doc.metadata, "source_file", <<>>)
        file_type == Get(doc.metadata, "file_format", <<"Unknown">>)
    IN <<"DOCUMENT ", Num(i), " - ">> \o source \o <<" (">> \o Upper(file_type) \o <<")">>

\* agents.py:51-53: the header line of the i-th chunk
DocumentHeader(doc, i) ==
    LET source == Get(doc.metadata, "source_file", <<"Unknown">>)
        file_type == Get(doc.metadata, "file_format", <<"Unknown">>)
    IN <<"DOCUMENT ", Num(i), " - ">> \o source \o <<" (">> \o Upper(file_type) \o <<")">>

RECURSIVE RenderDocs(_, _)
RenderDocs(docs, i) ==
    IF i > Len(docs) THEN <<>>
    ELSE LET doc == docs[i]
         IN DocumentHeader(doc, i) \o <<"Content: ">> \o doc.page_content \o <<"----">>
              \o RenderDocs(docs, i + 1)

\* mutant: no try/except around the search, so its exception escapes run
DocumentRetrieverTool_run_Unguarded(retriever, query) ==
    IF retriever.caps = {}
    THEN Ret(<<ErrorTok, ": Retriever object has no compatible method">>)
    ELSE IF retriever.out.kind = "raise"
    THEN RaiseC(retriever.out.val, <<"retriever.search">>)
    ELSE IF retriever.out.val = <<>>
    THEN RetC(EmptyResultMarker, <<"retriever.search">>)
    ELSE RetC(<<"RETRIEVED DOCUMENTS:">> \o RenderDocs(retriever.out.val, 1),
              <<"retriever.search">>)

DocumentRetrieverTool_run(retriever, query) ==
    IF "get_relevant_documents" \in retriever.caps
       \/ "invoke" \in retriever.caps
       \/ "__call__" \in retriever.caps
    THEN LET method == IF "get_relevant_documents" \in retriever.caps
                           THEN "retriever.get_relevant_documents"
                       ELSE IF "invoke" \in retriever.caps THEN "retriever.invoke"
                       ELSE "retriever.__call__"
             log == <<method>>
             docs == retriever.out
         IN IF docs.kind = "raise"
               THEN RetC(<<ErrorTok, " retrieving documents: ">> \o docs.val, log)
            ELSE IF docs.val = <<>>
               THEN RetC(EmptyResultMarker, log)
            ELSE RetC(<<"RETRIEVED DOCUMENTS:">> \o RenderDocs(docs.val, 1), log)
    ELSE Ret(<<ErrorTok, ": Retriever object has no compatible method">>)

\* mutant: the except branch forgets str(e)
ContentSummarizerTool_run_DropsReason(text, gen) ==
    LET log == <<"summarizer.generate_content">>
    IN IF gen.kind = "raise"
          THEN RetC(<<ErrorTok, " generating summary">>, log)
       ELSE RetC(<<"SUMMARY:">> \o gen.val, log)

ContentSummarizerTool_run(text, gen) ==
    LET log == <<"summarizer.generate_content">>
    IN IF gen.kind = "raise"
          THEN RetC(<<ErrorTok, " generating summary: ">> \o gen.val, log)
       ELSE RetC(<<"SUMMARY:">> \o gen.val, log)

DocumentAnalyzerTool_run(text, gen) ==
    LET log == <<"analyzer.generate_content">>
    IN IF gen.kind = "raise"
          THEN RetC(<<ErrorTok, " analyzing content: ">> \o gen.val, log)
       ELSE RetC(<<"ANALYSIS RESULTS:">> \o gen.val, log)

FormatHeader == <<"PROFESSIONALLY FORMATTED RESPONSE:">>
FormatFooter == <<"FORMATTING FEATURES APPLIED">>
ContentFormatterTool_run(content) ==
    IF content = <<>> \/ HasError(content)
    THEN Ret(content)
    ELSE Ret(FormatHeader \o content \o FormatFooter)

CiteHeader == <<"CITATION MANAGEMENT APPLIED:">>
CiteFooter == <<"SOURCES ATTRIBUTED">>
CitationManagerTool_run(content) ==
    IF content = <<>> \/ HasError(content)
    THEN Ret(content)
    ELSE Ret(CiteHeader \o content \o CiteFooter)

\* ------------------------------------------------------------ agent nodes
\* mutant: the node does not spread the incoming state into its result, so
\* the query is lost
Node_DropsQuery(st, calls) == [st |-> [st EXCEPT !.query = <<>>], calls |-> calls]

\* Each node returns the new state (st) and the tool and collaborator calls
\* it made (calls).  A tool that raised is caught by the node's except.
Node(st, calls) == [st |-> st, calls |-> calls]

retriever_agent(state, env) ==
    IF "retriever" \in state.tools
    THEN LET r == DocumentRetrieverTool_run(env.retr, state.query)
             calls == <<"retriever">> \o r.calls
         IN IF r.kind = "raise"
            THEN Node([state EXCEPT !.retrieved_documents = <<ErrorTok, " in retrieval: ">> \o r.val,
                                    !.current_step = "retrieval_complete"], calls)
            ELSE Node([state EXCEPT !.retrieved_documents = r.val,
                                    !.current_step = "retrieval_complete"], calls)
    ELSE Node([state EXCEPT !.retrieved_documents = <<"Retriever tool not available">>,
                            !.current_step = "retrieval_complete"], <<>>)

\* mutant: only "Error" stops the summarizer, the empty-result marker does not
summarizer_agent_IgnoresMarker(state, env) ==
    IF "summarizer" \in state.tools /\ state.retrieved_documents # <<>>
    THEN IF ~HasError(state.retrieved_documents)
         THEN LET r == ContentSummarizerTool_run(state.retrieved_documents, env.sumGen)
              IN Node([state EXCEPT !.summarized_content = r.val,
                                    !.current_step = "summarization_complete"],
                      <<"summarizer">> \o r.calls)
         ELSE Node([state EXCEPT !.summarized_content = state.retrieved_documents,
                                 !.current_step = "summarization_complete"], <<>>)
    ELSE Node([state EXCEPT !.summarized_content = <<"Summarizer tool not available">>,
                            !.current_step = "summarization_complete"], <<>>)

summarizer_agent(state, env) ==
    IF "summarizer" \in state.tools /\ state.retrieved_documents # <<>>
    THEN IF ~HasError(state.retrieved_documents) /\ ~HasNoRel(state.retrieved_documents)
         THEN LET r == ContentSummarizerTool_run(state.retrieved_documents, env.sumGen)
                  calls == <<"summarizer">> \o r.calls
              IN IF r.kind = "raise"
                 THEN Node([state EXCEPT !.summarized_content = <<ErrorTok, " in summarization: ">> \o r.val,
                                         !.current_step = "summarization_complete"], calls)
                 ELSE Node([state EXCEPT !.summarized_content = r.val,
                                         !.current_step = "summarization_complete"], calls)
         ELSE Node([state EXCEPT !.summarized_content = state.retrieved_documents,
                                 !.current_step = "summarization_complete"], <<>>)
    ELSE Node([state EXCEPT !.summarized_content = <<"Summarizer tool not available">>,
                            !.current_step = "summarization_complete"], <<>>)

analyst_agent(state, env) ==
    IF "analyzer" \in state.tools /\ state.summarized_content # <<>>
    THEN IF ~HasError(state.summarized_content) /\ ~HasNoRel(state.summarized_content)
         THEN LET r == DocumentAnalyzerTool_run(state.summarized_content, env.anaGen)
                  calls == <<"analyzer">> \o r.calls
              IN IF r.kind = "raise"
                 THEN Node([state EXCEPT !.analysis_results = <<ErrorTok, " in analysis: ">> \o r.val,
                                         !.current_step = "analysis_complete"], calls)
                 ELSE Node([state EXCEPT !.analysis_results = r.val,
                                         !.current_step = "analysis_complete"], calls)
         ELSE Node([state EXCEPT !.analysis_results = state.summarized_content,
                                 !.current_step = "analysis_complete"], <<>>)
    ELSE Node([state EXCEPT !.analysis_results = <<"Analyzer tool not available">>,
                            !.current_step = "analysis_complete"], <<>>)

\* Python's `a or b or c` over the three output fields
\* mutant: the summary is preferred over the analysis
content_to_format_SummaryFirst(state) ==
    IF state.summarized_content # <<>> THEN state.summarized_content
    ELSE IF state.analysis_results # <<>> THEN state.analysis_results
    ELSE state.retrieved_documents

content_to_format(state) ==
    IF state.analysis_results # <<>> THEN state.analysis_results
    ELSE IF state.summarized_content # <<>> THEN state.summarized_content
    ELSE state.retrieved_documents

\* mutant: the citations are added first and the result is formatted
quality_agent_CitesFirst(state, env) ==
    LET content == content_to_format(state)
    IN IF /\ "formatter" \in state.tools
          /\ content # <<>>
          /\ ~HasError(content)
          /\ ~HasNoRel(content)
       THEN LET c == CitationManagerTool_run(content)
                f == ContentFormatterTool_run(c.val)
            IN Node([state EXCEPT !.final_output = f.val,
                                  !.current_step = "complete"], <<"citations", "formatter">>)
       ELSE Node([state EXCEPT !.final_output = content,
                               !.current_step = "complete"], <<>>)

quality_agent(state, env) ==
    LET content == content_to_format(state)
    IN IF /\ "formatter" \in state.tools
          /\ content # <<>>
          /\ ~HasError(content)
          /\ ~HasNoRel(content)
       THEN LET f == ContentFormatterTool_run(content)
            IN IF f.kind = "raise"
               THEN Node([state EXCEPT !.final_output = <<ErrorTok, " in quality assurance: ">> \o f.val,
                                       !.current_step = "complete"], <<"formatter">>)
               ELSE IF "citations" \in state.tools
               THEN LET c == CitationManagerTool_run(f.val)
                    IN IF c.kind = "raise"
                       THEN Node([state EXCEPT !.final_output = <<ErrorTok, " in quality assurance: ">> \o c.val,
                                               !.current_step = "complete"], <<"formatter", "citations">>)
                       ELSE Node([state EXCEPT !.final_output = c.val,
                                               !.current_step = "complete"], <<"formatter", "citations">>)
               ELSE Node([state EXCEPT !.final_output = f.val,
                                       !.current_step = "complete"], <<"formatter">>)
       ELSE Node([state EXCEPT !.final_output = content,
                               !.current_step = "complete"], <<>>)

\* -------------------------------------------------------- graph executor
END == "END"
EntryPoint == "retriever"
\* mutant: the edge out of the analyst goes straight to END
GraphEdge_SkipsQuality(n) ==
    CASE n = "retriever" -> "summarizer"
      [] n = "summarizer" -> "analyst"
      [] n = "analyst" -> END
      [] n = "quality_assurance" -> END

\* mutant: the edge out of the retriever bypasses the summarizer
GraphEdge_SkipsSummarizer(n) ==
    CASE n = "retriever" -> "analyst"
      [] n = "summarizer" -> "analyst"
      [] n = "analyst" -> "quality_assurance"
      [] n = "quality_assurance" -> END

\* workflow.add_edge(from, to)
GraphEdge(n) ==
    CASE n = "retriever" -> "summarizer"
      [] n = "summarizer" -> "analyst"
      [] n = "analyst" -> "quality_assurance"
      [] n = "quality_assurance" -> END

\* workflow.add_node(name, fn)
GraphNode(n, state, env) ==
    CASE n = "retriever" -> retriever_agent(state, env)
      [] n = "summarizer" -> summarizer_agent(state, env)
      [] n = "analyst" -> analyst_agent(state, env)
      [] n = "quality_assurance" -> quality_agent(state, env)

initial_state(query) ==
    [query |-> query,
     retrieved_documents |-> <<>>,
     summarized_content |-> <<>>,
     analysis_results |-> <<>>,
     final_output |-> <<>>,
     current_step |-> "started",
     error |-> <<>>,
     tools |-> ToolNames]

\* graph.invoke: run the nodes along the edges until END
RECURSIVE graph_invoke(_, _, _, _)
graph_invoke(n, state, calls, env) ==
    IF n = END THEN Node(state, calls)
    ELSE LET r == GraphNode(n, state, env)
         IN graph_invoke(GraphEdge(n), r.st, calls \o r.calls, env)

\* No node lets an exception out, so the except of kickoff (agents.py:358)
\* has nothing to catch.
LangGraphMultiAgent_kickoff(query, env) ==
    LET fin == graph_invoke(EntryPoint, initial_state(query), <<>>, env)
    IN RetC(fin.st.final_output, fin.calls)

\* --------------------------------------------------- sequential executor
SimpleMultiAgent_kickoff(query, env) ==
    LET r == DocumentRetrieverTool_run(env.retr, query)
        c1 == <<"retriever">> \o r.calls
    IN IF r.kind = "raise"
       THEN RetC(<<ErrorTok, " in simple workflow: ">> \o r.val, c1)
       ELSE IF HasError(r.val) \/ HasNoRel(r.val)
       THEN RetC(r.val, c1)
       ELSE
       LET s == ContentSummarizerTool_run(r.val, env.sumGen)
           c2 == c1 \o <<"summarizer">> \o s.calls
       IN IF s.kind = "raise"
          THEN RetC(<<ErrorTok, " in simple workflow: ">> \o s.val, c2)
          ELSE
          LET a == DocumentAnalyzerTool_run(s.val, env.anaGen)
              c3 == c2 \o <<"analyzer">> \o a.calls
          IN IF a.kind = "raise"
             THEN RetC(<<ErrorTok, " in simple workflow: ">> \o a.val, c3)
             ELSE
             LET f == ContentFormatterTool_run(a.val)
                 c4 == c3 \o <<"formatter">>
             IN IF f.kind = "raise"
                THEN RetC(<<ErrorTok, " in simple workflow: ">> \o f.val, c4)
                ELSE
                LET c == CitationManagerTool_run(f.val)
                    c5 == c4 \o <<"citations">>
                IN IF c.kind = "raise"
                   THEN RetC(<<ErrorTok, " in simple workflow: ">> \o c.val, c5)
                   ELSE RetC(c.val, c5)

\* ================================================================ state
VARIABLES
    env,        \* behaviour of the retrieval and generation collaborators
    query,      \* inputs["query"]
    state,      \* the AgentState threaded through the graph
    node,       \* the graph node that runs next, END after the last one
    gcalls,     \* tool and collaborator calls made by the graph run so far
    steps,      \* the values current_step has taken, in order
    gresult,    \* what LangGraphMultiAgent.kickoff returned
    sresult,    \* what SimpleMultiAgent.kickoff returned
    utext,      \* the text handed to one tool's run on its own
    ugen,       \* what generate_content does in that call
    uout,       \* per tool, what run(utext) gave
    qstate,     \* the AgentState handed to quality_agent on its own
    qout,       \* the AgentState quality_agent returned for qstate
    LANGGRAPH_AVAILABLE,    \* whether the graph runtime could be imported
    document_retrievers,    \* st.session_state.document_retrievers
    chat_history,           \* st.session_state.chat_history
    selected_docs,          \* the targets of process_multi_document_query
    mquery,                 \* its query
    mpc,                    \* where it stands: "loop", "store", "returned", "raised"
    idx,                    \* the position of the loop in selected_docs
    all_responses,          \* its result mapping, in insertion order
    mlog,                   \* per target processed so far: how it ended
    factory_log,            \* what agents.py showed on import and in get_multiagent_system
    processed_documents,    \* st.session_state.processed_documents
    document_vector_stores, \* st.session_state.document_vector_stores
    document_summaries,     \* st.session_state.document_summaries
    probe,                  \* a retriever queried from several places
    probed,                 \* per place, the call it made on probe
    combined_retriever,     \* st.session_state.combined_retriever: <<>> is None
    retriever_alias,        \* st.session_state.retriever, a key that can be deleted
    summary_generating,     \* st.session_state.summary_generating
    selected_document,      \* st.session_state.selected_document
    selected_documents,     \* st.session_state.selected_documents
    current_retriever,      \* st.session_state.current_retriever
    query_input,            \* the text the query_input widget holds
    auto_process,           \* st.session_state.auto_process
    auto_query,             \* st.session_state.auto_query
    runs,                   \* the pipeline executions chat_tab started, in order
    uploaded,               \* the files the uploader holds, as last handed to process_documents
    last_op,                \* the handler that ran last in the session
    requested               \* the last request for summaries: documents and what generation did

pipeVars == <<env, query, state, node, gcalls, steps, gresult, sresult>>
toolVars == <<utext, ugen, uout>>
qualVars == <<qstate, qout>>
multiVars == <<LANGGRAPH_AVAILABLE, document_retrievers, chat_history, selected_docs,
               mquery, mpc, idx, all_responses, mlog, factory_log>>
storeVars == <<processed_documents, document_vector_stores, document_summaries>>
probeVars == <<probe, probed>>
appVars == <<combined_retriever, retriever_alias, summary_generating, selected_document,
             selected_documents, current_retriever, query_input, auto_process, auto_query,
             runs, uploaded, last_op, requested>>
vars == <<pipeVars, toolVars, qualVars, multiVars, storeVars, probeVars, appVars>>

Pending == [kind |-> "pending", val |-> <<>>, calls |-> <<>>]

Stages == {"summarizer", "analyzer", "formatter", "citations"}
NotRun == [kind |-> "notrun", val |-> <<>>]

\* No tool is being exercised on its own
ToolsIdle ==
    /\ utext = <<>>
    /\ ugen = Ret(<<>>)
    /\ uout = [s \in Stages |-> Pending]

\* quality_agent is not being exercised on its own
QualityIdle ==
    /\ qstate = initial_state(<<>>)
    /\ qout = NotRun

\* No multi-document query is being processed
MultiIdle ==
    /\ LANGGRAPH_AVAILABLE = TRUE
    /\ document_retrievers = <<>>
    /\ chat_history = <<>>
    /\ selected_docs = <<>>
    /\ mquery = <<>>
    /\ mpc = "returned"
    /\ idx = 1
    /\ all_responses = <<>>
    /\ mlog = <<>>
    /\ factory_log = <<>>
    /\ processed_documents = <<>>
    /\ document_vector_stores = <<>>
    /\ document_summaries = <<>>

\* the places that query a retriever: DocumentRetrieverTool.run, the source
\* listing of process_multi_document_query, display_enhanced_fallback_single
Places == {"tool", "sources", "fallback"}
\* No retriever is being probed
ProbeIdle ==
    /\ probe = [caps |-> {}, out |-> Ret(<<>>)]
    /\ probed = [p \in Places |-> Pending]

\* The session as init_session_state leaves it (state.py:7-46); chat_tab has
\* not run yet, so the keys it creates hold their .get defaults
None == <<>>
Alias(present, val) == [present |-> present, val |-> val]
NoRetriever == [mode |-> "none", retr |-> None]
NoRequest == [docs |-> <<>>, model_ok |-> TRUE, gen |-> <<>>]
AppIdle ==
    /\ combined_retriever = None
    /\ retriever_alias = Alias(TRUE, None)
    /\ summary_generating = {}
    /\ selected_document = <<"All Documents">>
    /\ selected_documents = <<>>
    /\ current_retriever = NoRetriever
    /\ query_input = <<>>
    /\ auto_process = FALSE
    /\ auto_query = <<>>
    /\ runs = <<>>
    /\ uploaded = <<>>
    /\ last_op = "init_session_state"
    /\ requested = NoRequest

\* No pipeline is running
PipelineIdle ==
    /\ env = [retr |-> [caps |-> {}, out |-> Ret(<<>>)], sumGen |-> Ret(<<>>), anaGen |-> Ret(<<>>)]
    /\ query = <<>>
    /\ state = initial_state(query)
    /\ node = END
    /\ gcalls = <<>>
    /\ steps = <<"started">>
    /\ gresult = Pending
    /\ sresult = Pending

\* Both executors are built over the same retriever and the same
\* generation behaviour; the graph run stands right after initial_state
\* is built (agents.py:343-352).
Init ==
    /\ AppIdle
    /\ ProbeIdle
    /\ ToolsIdle
    /\ QualityIdle
    /\ MultiIdle
    /\ env \in Envs
    /\ query \in Queries
    /\ state = initial_state(query)
    /\ node = EntryPoint
    /\ gcalls = <<>>
    /\ steps = <<"started">>
    /\ gresult = Pending
    /\ sresult = Pending

RunNode(n) ==
    /\ node = n
    /\ LET r == GraphNode(n, state, env)
       IN /\ state' = r.st
          /\ gcalls' = gcalls \o r.calls
          /\ steps' = Append(steps, r.st.current_step)
    /\ node' = GraphEdge(n)
    /\ UNCHANGED <<env, query, gresult, sresult, toolVars, qualVars, multiVars, storeVars, probeVars, appVars>>

RetrieverNode == RunNode("retriever")
SummarizerNode == RunNode("summarizer")
AnalystNode == RunNode("analyst")
QualityNode == RunNode("quality_assurance")

\* final_state.get("final_output", "No output generated")
GraphReturn ==
    /\ node = END
    /\ gresult = Pending
    /\ gresult' = RetC(state.final_output, gcalls)
    /\ UNCHANGED <<env, query, state, node, gcalls, steps, sresult, toolVars, qualVars, multiVars, storeVars, probeVars, appVars>>

SimpleKickoff ==
    /\ sresult = Pending
    /\ sresult' = SimpleMultiAgent_kickoff(query, env)
    /\ UNCHANGED <<env, query, state, node, gcalls, steps, gresult, toolVars, qualVars, multiVars, storeVars, probeVars, appVars>>

Next ==
    \/ RetrieverNode
    \/ SummarizerNode
    \/ AnalystNode
    \/ QualityNode
    \/ GraphReturn
    \/ SimpleKickoff

Spec == Init /\ [][Next]_vars

\* The graph runtime runs a started graph to END and kickoff is a plain
\* blocking call, so every enabled step is eventually taken.
FairSpec == Spec /\ WF_vars(Next)

GraphDone == gresult # Pending
SimpleDone == sresult # Pending
BothDone == GraphDone /\ SimpleDone

Count(x, seq) == Cardinality({i \in DOMAIN seq : seq[i] = x})

RetrieverUsable == env.retr.caps # {}
RetrievalEmpty == RetrieverUsable /\ env.retr.out.kind = "return" /\ env.retr.out.val = <<>>
RetrievalRaised == RetrieverUsable /\ env.retr.out.kind = "raise"

\* ----------------------------------------------------------------- C1
\* C1: for the same retriever and the same generation behaviour the graph
\* executor and the sequential executor return the identical final string.
ExecutorEquivalence ==
    BothDone => gresult.val = sresult.val

\* ----------------------------------------------------------------- C3
\* C3: in both executors, once the Summarizer's generation call has raised,
\* the Analyzer's generation call is not made, no formatting or citation
\* markup is added, and the final output is the failure text verbatim.
SummaryFailureText == <<ErrorTok, " generating summary: ">> \o env.sumGen.val
Relayed(res) ==
    (/\ res # Pending
     /\ env.sumGen.kind = "raise"
     /\ Count("summarizer.generate_content", res.calls) > 0)
    => /\ Count("analyzer.generate_content", res.calls) = 0
       /\ Count("formatter", res.calls) = 0
       /\ Count("citations", res.calls) = 0
       /\ res.val = SummaryFailureText
FailureRelay == Relayed(gresult) /\ Relayed(sresult)

\* ----------------------------------------------------------------- C4
\* C4: when the retriever returns an empty sequence, either executor's final
\* output is the empty-result marker, the marker is no error marker, and no
\* generation call is made by the Summarizer or the Analyzer.
EmptyRun(res) ==
    (res # Pending /\ RetrievalEmpty)
    => /\ res.kind = "return"
       /\ res.val = <<"No relevant documents", " found for the query.">>
       /\ ~HasError(res.val)
       /\ Count("summarizer.generate_content", res.calls) = 0
       /\ Count("analyzer.generate_content", res.calls) = 0
NoRetrievalResults == EmptyRun(gresult) /\ EmptyRun(sresult)
NoRetrievalResultsWitness == BothDone /\ RetrievalEmpty

\* ----------------------------------------------------------------- C8
\* C8: whatever the retrieval and generation collaborators do, both kickoffs
\* terminate and return a string without raising; every graph run ends with
\* current_step = "complete" and final_output written by the quality stage
\* (and by no other stage).
PipelineTerminates ==
    /\ <>BothDone
    /\ [](GraphDone => /\ gresult.kind = "return"
                       /\ state.current_step = "complete"
                       /\ gresult.val = state.final_output
                       /\ node = END)
    /\ [](SimpleDone => sresult.kind = "return")
    /\ [][state'.final_output # state.final_output => node = "quality_assurance"]_vars
    /\ [][node = "quality_assurance" /\ node' # node
             => state'.final_output = quality_agent(state, env).st.final_output]_vars
PipelineTerminatesWitness ==
    BothDone /\ RetrievalRaised /\ state.current_step = "complete"

\* ----------------------------------------------------------------- C9
\* C9: in every graph run current_step takes exactly the values started,
\* retrieval_complete, summarization_complete, analysis_complete, complete,
\* in that order, none skipped or repeated, also when a stage failed or
\* short-circuited.
StepOrder ==
    <<"started", "retrieval_complete", "summarization_complete",
      "analysis_complete", "complete">>
LinearProgression ==
    /\ Len(steps) <= Len(StepOrder)
    /\ \A i \in DOMAIN steps : steps[i] = StepOrder[i]
    /\ state.current_step = steps[Len(steps)]
    /\ (GraphDone => steps = StepOrder)
LinearProgressionWitness ==
    /\ GraphDone
    /\ env.sumGen.kind = "raise"
    /\ Count("summarizer.generate_content", gcalls) = 1
    /\ Count("analyzer", gcalls) = 0

\* ---------------------------------------------------------------- C10
\* C10: when the generation call raises inside the Summarizer or Analyzer,
\* run does not raise but returns a string holding the token "Error" and the
\* failure reason, and each of the two stages calls the generation
\* collaborator at most once per pipeline run.
Contained(r, gen) ==
    gen.kind = "raise" => r.kind = "return" /\ HasError(r.val) /\ Occurs(gen.val, r.val)
GenerationContained ==
    /\ Contained(ContentSummarizerTool_run(state.retrieved_documents, env.sumGen), env.sumGen)
    /\ Contained(DocumentAnalyzerTool_run(state.summarized_content, env.anaGen), env.anaGen)
    /\ (env.sumGen.kind = "raise" /\ Count("summarizer.generate_content", gcalls) > 0
           => HasError(state.summarized_content) /\ Occurs(env.sumGen.val, state.summarized_content))
    /\ (env.anaGen.kind = "raise" /\ Count("analyzer.generate_content", gcalls) > 0
           => HasError(state.analysis_results) /\ Occurs(env.anaGen.val, state.analysis_results))
    /\ \A calls \in {gcalls, sresult.calls} :
          /\ Count("summarizer.generate_content", calls) <= 1
          /\ Count("analyzer.generate_content", calls) <= 1
GenerationContainedWitness ==
    /\ BothDone
    /\ env.anaGen.kind = "raise"
    /\ Count("analyzer.generate_content", gcalls) = 1
    /\ Count("analyzer.generate_content", sresult.calls) = 1

\* ================================================= one tool on its own
\* The four transformation tools applied, each once, to the same input text.
StageTexts ==
    { <<>>,
      EmptyResultMarker,
      <<ErrorTok, " retrieving documents: ", "quota exceeded">>,
      <<ErrorTok, ": Retriever object has no compatible method">>,
      <<"RETRIEVED DOCUMENTS:", "DOCUMENT ", "1", " - ", "bio.txt", " (", "TXT", ")",
        "Content: ", "Photosynthesis", "----">>,
      <<"SUMMARY:", "generated text">>,
      <<"ANALYSIS RESULTS:", "text with ", ErrorTok>> }

InitTools ==
    /\ AppIdle
    /\ ProbeIdle
    /\ PipelineIdle
    /\ QualityIdle
    /\ MultiIdle
    /\ utext \in StageTexts
    /\ ugen \in GenOutcomes
    /\ uout = [s \in Stages |-> Pending]

ToolRun(s, r) ==
    /\ uout[s] = Pending
    /\ uout' = [uout EXCEPT ![s] = r]
    /\ UNCHANGED <<utext, ugen, pipeVars, qualVars, multiVars, storeVars, probeVars, appVars>>

SummarizerRun == ToolRun("summarizer", ContentSummarizerTool_run(utext, ugen))
AnalyzerRun == ToolRun("analyzer", DocumentAnalyzerTool_run(utext, ugen))
FormatterRun == ToolRun("formatter", ContentFormatterTool_run(utext))
CitationRun == ToolRun("citations", CitationManagerTool_run(utext))

NextTools ==
    \/ SummarizerRun
    \/ AnalyzerRun
    \/ FormatterRun
    \/ CitationRun

SpecTools == InitTools /\ [][NextTools]_vars

\* ----------------------------------------------------------------- C2
\* C2: for each of Summarizer, Analyzer, Formatter and Citation Annotator,
\* run on the empty-result marker or on a text holding the token "Error"
\* returns exactly that input.
IsSentinel(t) == t = EmptyResultMarker \/ HasError(t)
SentinelForwarding ==
    \A s \in Stages :
        (uout[s] # Pending /\ IsSentinel(utext))
        => uout[s].kind = "return" /\ uout[s].val = utext

\* ======================================== the quality stage on its own
FieldTexts(label) ==
    { <<>>,
      <<label, "content">>,
      <<label, NoRelTok, " found for the query.">>,
      <<label, ErrorTok, " quota exceeded">> }

QualityInputs ==
    { [initial_state(q) EXCEPT !.retrieved_documents = r,
                               !.summarized_content = s,
                               !.analysis_results = a,
                               !.current_step = "analysis_complete",
                               !.tools = t] :
        q \in Queries,
        r \in FieldTexts("RETRIEVED"),
        s \in FieldTexts("SUMMARY"),
        a \in FieldTexts("ANALYSIS"),
        t \in SUBSET {"formatter", "citations"} }

InitQuality ==
    /\ AppIdle
    /\ ProbeIdle
    /\ PipelineIdle
    /\ ToolsIdle
    /\ MultiIdle
    /\ qstate \in QualityInputs
    /\ qout = NotRun

QualityRun ==
    /\ qout = NotRun
    /\ qout' = [kind |-> "ran", val |-> quality_agent(qstate, env).st]
    /\ UNCHANGED <<qstate, pipeVars, toolVars, multiVars, storeVars, probeVars, appVars>>

NextQuality == QualityRun

SpecQuality == InitQuality /\ [][NextQuality]_vars

QualityDone == qout.kind = "ran"
AllEmpty(st) ==
    /\ st.analysis_results = <<>>
    /\ st.summarized_content = <<>>
    /\ st.retrieved_documents = <<>>
\* the final output is built from text c and from no other stage's field
DerivedFrom(c, st, out) ==
    /\ Occurs(c, out)
    /\ \A other \in {st.analysis_results, st.summarized_content, st.retrieved_documents} :
          other # <<>> /\ other # c => ~Occurs(other, out)
Precedence(st, out) ==
    /\ st.analysis_results # <<>> => DerivedFrom(st.analysis_results, st, out)
    /\ st.analysis_results = <<>> /\ st.summarized_content # <<>>
          => DerivedFrom(st.summarized_content, st, out)
    /\ st.analysis_results = <<>> /\ st.summarized_content = <<>>
         /\ st.retrieved_documents # <<>>
          => DerivedFrom(st.retrieved_documents, st, out)

\* ----------------------------------------------------------------- C5
\* C5 as stated: the quality stage derives its output from analysis_results
\* if non-empty, else summarized_content if non-empty, else
\* retrieved_documents if non-empty, and when all three are empty the final
\* output is the empty-result marker.
PrecedenceLawAsStated ==
    QualityDone =>
        /\ Precedence(qstate, qout.val.final_output)
        /\ (AllEmpty(qstate) => qout.val.final_output = EmptyResultMarker)

\* C5 amended: same precedence, and when all three fields are empty the
\* final output is the empty string, passed through unchanged.
PrecedenceLaw ==
    QualityDone =>
        /\ Precedence(qstate, qout.val.final_output)
        /\ (AllEmpty(qstate) => qout.val.final_output = <<>>)
PrecedenceLawWitness ==
    /\ QualityDone
    /\ qstate.analysis_results = <<>>
    /\ qstate.summarized_content # <<>>
    /\ qstate.retrieved_documents # <<>>
    /\ qout.val.final_output # qstate.summarized_content

\* ============================================ multi-document coordinator
\* get_multiagent_system: which executor the caller gets.  buildRaises is
\* whether building the graph raises.
get_multiagent_system(available, use_enhanced, buildRaises) ==
    IF use_enhanced /\ available
    THEN IF buildRaises THEN "simple" ELSE "graph"
    ELSE "simple"

\* what agents.py shows when it is imported (agents.py:8-13)
ImportNotice == <<"warning: LangGraph not available. Using simplified workflow.">>
import_messages(available) == IF available THEN <<>> ELSE ImportNotice
\* what one call of get_multiagent_system shows (agents.py:410-420)
InitNotice == <<"info: Initializing LangGraph Multi-Agent System...">>
BuildFailedNotice == <<"error: LangGraph multi-agent system failed">>
FallingBackNotice == <<"info: Falling back to simple sequential workflow...">>
UnavailableNotice == <<"warning: LangGraph not available. Using simple workflow.">>
get_multiagent_system_messages(available, use_enhanced, buildRaises) ==
    IF use_enhanced /\ available
    THEN IF buildRaises
         THEN InitNotice \o BuildFailedNotice \o FallingBackNotice
         ELSE InitNotice
    ELSE IF use_enhanced /\ ~available THEN UnavailableNotice ELSE <<>>

\* crew.kickoff(inputs={"query": query})
Kickoff(crew, q, e) ==
    IF crew = "graph" THEN LangGraphMultiAgent_kickoff(q, e)
    ELSE SimpleMultiAgent_kickoff(q, e)

\* A Python dict as the sequence of its items in insertion order
Keys(d) == [i \in DOMAIN d |-> d[i].key]
HasKey(d, k) == \E i \in DOMAIN d : d[i].key = k
DictSet(d, k, v) ==
    IF HasKey(d, k)
    THEN [i \in DOMAIN d |-> IF d[i].key = k THEN [key |-> k, val |-> v] ELSE d[i]]
    ELSE Append(d, [key |-> k, val |-> v])
DictGet(d, k) == (CHOOSE i \in DOMAIN d : d[i].key = k)
DictVal(d, k) == d[DictGet(d, k)].val
\* the dict with the keys of the list keys, in that order, and the values f gives
DictOver(keys, f) == [i \in DOMAIN keys |-> [key |-> keys[i], val |-> f[keys[i]]]]

\* the call chat.py makes on a retriever: invoke, else
\* get_relevant_documents, else the plain call, else none
\* (chat.py:304-311, 383-388, 473-478, 508-513)
chat_search_call(retriever) ==
    IF "invoke" \in retriever.caps THEN <<"retriever.invoke">>
    ELSE IF "get_relevant_documents" \in retriever.caps
    THEN <<"retriever.get_relevant_documents">>
    ELSE IF "__call__" \in retriever.caps THEN <<"retriever.__call__">>
    ELSE <<>>

\* the source listing after an answer: it shows the documents and returns
\* nothing; an exception of the search is caught
source_listing(q, retriever) == RetC(<<>>, chat_search_call(retriever))

display_enhanced_fallback_single(q, retriever, fbGen, doc_name) ==
    LET log == chat_search_call(retriever)
    IN IF retriever.caps # {} /\ retriever.out.kind = "raise"
       THEN RetC(<<ErrorTok, " retrieving from ">> \o doc_name, log)
       ELSE IF retriever.caps = {} \/ retriever.out.val = <<>>
       THEN RetC(<<"No relevant content found in ">> \o doc_name, log)
       ELSE IF fbGen.kind = "raise"
       THEN RaiseC(fbGen.val, log)
       ELSE RetC(fbGen.val, log)

Iter(responses, raised, path) == [responses |-> responses, raised |-> raised, path |-> path]

\* mutant: the fallback is called outside any try, so its exception escapes
process_document_FallbackEscapes(responses, doc_name, retrievers, q, available, inp) ==
    IF ~HasKey(retrievers, doc_name)
    THEN Iter(responses, FALSE, "skipped")
    ELSE LET retriever == DictVal(retrievers, doc_name)
             crew == get_multiagent_system(available, TRUE, inp.buildRaises)
             result == Kickoff(crew, q, [retr |-> retriever, sumGen |-> inp.sumGen,
                                         anaGen |-> inp.anaGen])
         IN IF result.kind = "return" /\ ~inp.displayRaises
            THEN Iter(DictSet(responses, doc_name, result.val), FALSE, "answer")
            ELSE LET fb == display_enhanced_fallback_single(q, retriever, inp.fbGen, doc_name)
                 IN IF fb.kind = "raise"
                    THEN Iter(responses, TRUE, "raised")
                    ELSE Iter(DictSet(responses, doc_name, fb.val), FALSE, "fallback")

\* One iteration of the loop of process_multi_document_query over doc_name.
\* inp.displayRaises: a display call of the try block (st.spinner, st.write)
\* raises before the result is stored.  The source listing that follows the
\* store (chat.py:304-321) queries the retriever again inside its own
\* try/except and writes nothing to the session, so it leaves no trace here.
process_document(responses, doc_name, retrievers, q, available, inp) ==
    IF ~HasKey(retrievers, doc_name)
    THEN Iter(responses, FALSE, "skipped")
    ELSE LET retriever == DictVal(retrievers, doc_name)
             crew == get_multiagent_system(available, TRUE, inp.buildRaises)
             result == Kickoff(crew, q, [retr |-> retriever, sumGen |-> inp.sumGen,
                                         anaGen |-> inp.anaGen])
         IN IF result.kind = "return" /\ ~inp.displayRaises
            THEN Iter(DictSet(responses, doc_name, result.val), FALSE, "answer")
            ELSE LET fb == display_enhanced_fallback_single(q, retriever, inp.fbGen, doc_name)
                 IN IF fb.kind = "raise"
                    THEN Iter(DictSet(responses, doc_name,
                                      <<ErrorTok, ": Could not process ">> \o doc_name),
                              FALSE, "placeholder")
                    ELSE Iter(DictSet(responses, doc_name, fb.val), FALSE, "fallback")

DocName(i) ==
    IF i = 1 THEN <<"A.pdf">>
    ELSE IF i = 2 THEN <<"B.txt">>
    ELSE IF i = 3 THEN <<"C.pdf">>
    ELSE <<"D.txt">>
\* uploaded_file.name.split('.')[-1].lower()
Extension(name) == IF name \in {<<"A.pdf">>, <<"C.pdf">>} THEN <<"pdf">> ELSE <<"txt">>
Range(f) == {f[i] : i \in DOMAIN f}
\* the first n documents in the order they were processed
Options(n) == [i \in 1..n |-> DocName(i)]
\* a multiselect holds each option at most once; two or more are selected,
\* in the order of the options or in the opposite order
TargetLists ==
    {[i \in 1..n |-> DocName(i)] : n \in 2..MaxTargets}
    \cup {[i \in 1..n |-> DocName(n + 1 - i)] : n \in 2..MaxTargets}

MultiRetrievers ==
    { [caps |-> Caps, out |-> RaiseC(<<"index unavailable">>, <<>>)],
      [caps |-> Caps, out |-> Ret(<<>>)],
      [caps |-> Caps,
       out |-> Ret(<<[page_content |-> <<"Photosynthesis">>,
                      metadata |-> [source_file |-> <<"bio.txt">>,
                                    file_format |-> <<"txt">>]]>>)] }
GenFails == RaiseC(<<"quota exceeded">>, <<>>)
GenWorks == Ret(<<"generated text">>)
Inp(sumGen, anaGen, fbGen, displayRaises, buildRaises) ==
    [sumGen |-> sumGen, anaGen |-> anaGen, fbGen |-> fbGen,
     displayRaises |-> displayRaises, buildRaises |-> buildRaises]
\* what can happen around one target: all collaborators work; the summary
\* or the analysis generation fails; building the graph fails; a display
\* call raises and the fallback works or fails
MultiInputs ==
    { Inp(GenWorks, GenWorks, GenWorks, FALSE, FALSE),
      Inp(GenFails, GenWorks, GenWorks, FALSE, FALSE),
      Inp(GenWorks, GenFails, GenWorks, FALSE, FALSE),
      Inp(GenWorks, GenWorks, GenWorks, FALSE, TRUE),
      Inp(GenWorks, GenWorks, GenWorks, TRUE, FALSE),
      Inp(GenFails, GenFails, GenFails, TRUE, FALSE) }

\* the entry process_documents stores for a processed file
\* (document_processing.py:157-162)
DocumentInfo(d) == [format |-> Extension(d), chunks |-> 1]

\* chat_tab calls process_multi_document_query only when every selected
\* document has a registered retriever (chat.py:133-142, 245-247).
InitMulti ==
    /\ AppIdle
    /\ ProbeIdle
    /\ PipelineIdle
    /\ ToolsIdle
    /\ QualityIdle
    /\ LANGGRAPH_AVAILABLE \in BOOLEAN
    /\ selected_docs \in TargetLists
    /\ document_retrievers \in
          {DictOver(Options(Len(selected_docs)), f) :
              f \in [Range(selected_docs) -> MultiRetrievers]}
    /\ chat_history = <<>>
    /\ mquery \in Queries
    /\ mpc = "loop"
    /\ idx = 1
    /\ all_responses = <<>>
    /\ mlog = <<>>
    /\ factory_log = import_messages(LANGGRAPH_AVAILABLE)
    /\ processed_documents =
          DictOver(Options(Len(selected_docs)), [d \in Range(selected_docs) |-> DocumentInfo(d)])
    /\ document_vector_stores =
          DictOver(Options(Len(selected_docs)), [d \in Range(selected_docs) |-> <<"index of ">> \o d])
    /\ document_summaries =
          DictOver(<<DocName(1)>>, [d \in {DocName(1)} |-> <<"summary of ">> \o d])

ProcessDocument ==
    /\ mpc = "loop"
    /\ idx <= Len(selected_docs)
    /\ \E inp \in MultiInputs :
          LET doc_name == selected_docs[idx]
              r == process_document(all_responses, doc_name, document_retrievers,
                                    mquery, LANGGRAPH_AVAILABLE, inp)
          IN /\ all_responses' = r.responses
             /\ mlog' = Append(mlog, [doc |-> doc_name, path |-> r.path,
                                      val |-> IF HasKey(r.responses, doc_name)
                                              THEN r.responses[DictGet(r.responses, doc_name)].val
                                              ELSE <<>>,
                                      crew |-> IF HasKey(document_retrievers, doc_name)
                                               THEN get_multiagent_system(
                                                        LANGGRAPH_AVAILABLE, TRUE, inp.buildRaises)
                                               ELSE "none",
                                      buildRaised |-> LANGGRAPH_AVAILABLE /\ inp.buildRaises])
             /\ factory_log' =
                   IF HasKey(document_retrievers, doc_name)
                   THEN factory_log \o get_multiagent_system_messages(
                                           LANGGRAPH_AVAILABLE, TRUE, inp.buildRaises)
                   ELSE factory_log
             /\ mpc' = IF r.raised THEN "raised" ELSE "loop"
    /\ idx' = idx + 1
    /\ UNCHANGED <<LANGGRAPH_AVAILABLE, document_retrievers, chat_history,
                   selected_docs, mquery, pipeVars, toolVars, qualVars, storeVars, probeVars, appVars>>

RECURSIVE Join(_)
Join(names) ==
    IF names = <<>> THEN <<>>
    ELSE IF Len(names) = 1 THEN names[1]
    ELSE names[1] \o <<", ">> \o Join(Tail(names))

\* mutant: after the loop the retrievers of the targets are dropped from
\* the session
StoreResponses_DropsRetrievers ==
    /\ mpc = "loop"
    /\ idx > Len(selected_docs)
    /\ chat_history' = chat_history
    /\ document_retrievers' = <<>>
    /\ mpc' = "returned"
    /\ UNCHANGED <<LANGGRAPH_AVAILABLE, selected_docs, mquery,
                   idx, all_responses, mlog, factory_log, pipeVars, toolVars, qualVars,
                   storeVars, probeVars, appVars>>

\* after the loop: the chat entry is appended when there is any response
StoreResponses ==
    /\ mpc = "loop"
    /\ idx > Len(selected_docs)
    /\ chat_history' =
          IF all_responses # <<>>
          THEN Append(chat_history,
                      [query |-> mquery,
                       response |-> all_responses,
                       document |-> <<"Multiple Documents: ">> \o Join(selected_docs),
                       agent_generated |-> TRUE,
                       multi_document |-> TRUE])
          ELSE chat_history
    /\ mpc' = "returned"
    /\ UNCHANGED <<LANGGRAPH_AVAILABLE, document_retrievers, selected_docs, mquery,
                   idx, all_responses, mlog, factory_log, pipeVars, toolVars, qualVars, storeVars, probeVars, appVars>>

NextMulti ==
    \/ ProcessDocument
    \/ StoreResponses

SpecMulti == InitMulti /\ [][NextMulti]_vars

MultiReturned == mpc = "returned" /\ selected_docs # <<>>

RECURSIVE StoredDocs(_)
StoredDocs(log) ==
    IF log = <<>> THEN <<>>
    ELSE IF log[1].path = "skipped" THEN StoredDocs(Tail(log))
    ELSE <<log[1].doc>> \o StoredDocs(Tail(log))

\* ----------------------------------------------------------------- C6
\* C6: a failure while processing one target (its retriever raising, the
\* try block raising, the fallback raising) never stops the loop: every
\* target is processed in turn, each entry keeps the value its own target
\* produced, and the keys of the result mapping are in target order.
FailureIsolation ==
    /\ mpc # "raised"
    /\ Len(mlog) = idx - 1
    /\ \A i \in DOMAIN mlog : mlog[i].doc = selected_docs[i]
    /\ Keys(all_responses) = StoredDocs(mlog)
    /\ \A i \in DOMAIN mlog :
          mlog[i].path # "skipped"
          => /\ HasKey(all_responses, mlog[i].doc)
             /\ all_responses[DictGet(all_responses, mlog[i].doc)].val = mlog[i].val
    /\ (MultiReturned => Len(mlog) = Len(selected_docs))
FailureIsolationWitness ==
    /\ MultiReturned
    /\ Len(selected_docs) >= 3
    /\ mlog[1].path = "answer"
    /\ mlog[2].path = "placeholder"
    /\ mlog[3].path = "answer"
    /\ DictVal(document_retrievers, selected_docs[1]).out.kind = "raise"

\* ----------------------------------------------------------------- C7
\* C7: when process_multi_document_query has returned, every target has
\* exactly one entry in the result mapping, and the entry of a target whose
\* processing failed is an error placeholder naming that target.
TargetFailed(i) ==
    \/ mlog[i].path \in {"skipped", "placeholder"}
    \/ DictVal(document_retrievers, selected_docs[i]).out.kind = "raise"
ResultSetComplete ==
    MultiReturned =>
        \A i \in DOMAIN selected_docs :
            /\ Count(selected_docs[i], Keys(all_responses)) = 1
            /\ TargetFailed(i)
               => LET v == all_responses[DictGet(all_responses, selected_docs[i])].val
                  IN HasError(v) /\ Occurs(selected_docs[i], v)

\* ================================================== claims on the pipeline
RetrievalFailureText == <<ErrorTok, " retrieving documents: ">> \o env.retr.out.val

\* ---------------------------------------------------------------- C11
\* C11 as stated: when the retriever raises on being queried, the pipeline
\* turns the failure into the empty-result sentinel and no exception leaves
\* either executor.
RetrievalFailureAsEmpty ==
    \A res \in {gresult, sresult} :
        (res # Pending /\ RetrievalRaised)
        => res.kind = "return" /\ res.val = EmptyResultMarker

\* C11 amended: when the retriever raises, the failure becomes the error
\* marker "Error retrieving documents: <reason>" inside the retriever tool,
\* is relayed to the final output of either executor, and no exception
\* leaves the executor.
RetrievalFailureContained ==
    /\ \A res \in {gresult, sresult} :
          (res # Pending /\ RetrievalRaised)
          => /\ res.kind = "return"
             /\ res.val = RetrievalFailureText
             /\ HasError(res.val)
             /\ Count("summarizer", res.calls) = 0
    /\ (RetrievalRaised /\ Len(steps) > 1
           => state.retrieved_documents = RetrievalFailureText)
RetrievalFailureContainedWitness == BothDone /\ RetrievalRaised

\* ====================================== the places that query a retriever
\* One retriever is queried for the same query by DocumentRetrieverTool.run,
\* by the source listing of process_multi_document_query and by
\* display_enhanced_fallback_single.
InitProbe ==
    /\ AppIdle
    /\ PipelineIdle
    /\ ToolsIdle
    /\ QualityIdle
    /\ MultiIdle
    /\ probe \in Retrievers
    /\ probed = [p \in Places |-> Pending]

ProbeAt(p, r) ==
    /\ probed[p] = Pending
    /\ probed' = [probed EXCEPT ![p] = r]
    /\ UNCHANGED <<probe, pipeVars, toolVars, qualVars, multiVars, storeVars, appVars>>

ToolProbe == \E q \in Queries : ProbeAt("tool", DocumentRetrieverTool_run(probe, q))
SourcesProbe == \E q \in Queries : ProbeAt("sources", source_listing(q, probe))
FallbackProbe ==
    \E q \in Queries :
        ProbeAt("fallback", display_enhanced_fallback_single(q, probe, GenWorks, DocName(1)))

NextProbe ==
    \/ ToolProbe
    \/ SourcesProbe
    \/ FallbackProbe

SpecProbe == InitProbe /\ [][NextProbe]_vars

\* the one call the stated priority order selects
PriorityCall(caps) ==
    IF "get_relevant_documents" \in caps THEN <<"retriever.get_relevant_documents">>
    ELSE IF "invoke" \in caps THEN <<"retriever.invoke">>
    ELSE IF "__call__" \in caps THEN <<"retriever.__call__">>
    ELSE <<>>

\* ---------------------------------------------------------------- C12
\* C12: every place that queries a retriever makes exactly one call, the
\* first the retriever supports in the order get_relevant_documents,
\* invoke, plain call; DocumentRetrieverTool.run reports a retriever with
\* none of the three as a failure and calls nothing.
ProbePriority ==
    /\ \A p \in Places :
          probed[p] # Pending => probed[p].calls = PriorityCall(probe.caps)
    /\ (probed["tool"] # Pending /\ probe.caps = {})
          => /\ probed["tool"].kind = "return"
             /\ HasError(probed["tool"].val)

\* ================================================== claims on the graph run
\* a stage of the graph has met a failed or an empty retrieval
FailureDetected ==
    /\ Len(steps) > 1
    /\ (HasError(state.retrieved_documents) \/ HasNoRel(state.retrieved_documents))

\* ---------------------------------------------------------------- C13
\* C13: once a stage of the graph run has detected a failure or an empty
\* result, the error field of the AgentState is set from then on, up to
\* the final state.
FailureFieldSet == FailureDetected => state.error # <<>>

\* the field each node writes
OwnField(n) ==
    CASE n = "retriever" -> "retrieved_documents"
      [] n = "summarizer" -> "summarized_content"
      [] n = "analyst" -> "analysis_results"
      [] n = "quality_assurance" -> "final_output"
StateFields == DOMAIN initial_state(<<>>)

\* ---------------------------------------------------------------- C14
\* C14: a step of the graph leaves query and tools as they were at the
\* start of the run and changes no field of the state other than the
\* stepping node's own output field and current_step; the output fields
\* of earlier stages keep their values.
CopyOnWrite ==
    [][\A n \in {"retriever", "summarizer", "analyst", "quality_assurance"} :
          (node = n /\ node' # n)
          => /\ \A f \in StateFields \ {OwnField(n), "current_step"} : state'[f] = state[f]
             /\ state'.query = query
             /\ state'.tools = ToolNames]_vars
CopyOnWriteWitness ==
    /\ GraphDone
    /\ state.retrieved_documents # <<>>
    /\ state.summarized_content # state.retrieved_documents
    /\ state.analysis_results # state.summarized_content
    /\ state.final_output # state.analysis_results

\* ============================================= claims on executor selection
\* the messages that tell the user the sequential executor is used instead
IsFallbackNotice(m) == <<m>> \in {ImportNotice, UnavailableNotice, FallingBackNotice}
RECURSIVE FallbackNotices(_)
FallbackNotices(log) ==
    IF log = <<>> THEN 0
    ELSE (IF IsFallbackNotice(log[1]) THEN 1 ELSE 0) + FallbackNotices(Tail(log))
FallbackTaken == \E i \in DOMAIN mlog : mlog[i].crew = "simple"

\* ---------------------------------------------------------------- C15
\* C15: get_multiagent_system hands out the sequential executor whenever
\* the graph runtime is unavailable or building the graph raises, and
\* however many executors a multi-target query requests, the switch to
\* the fallback is announced exactly once.
ExecutorSelection ==
    /\ \A i \in DOMAIN mlog :
          (mlog[i].crew # "none" /\ (~LANGGRAPH_AVAILABLE \/ mlog[i].buildRaised))
          => mlog[i].crew = "simple"
    /\ FallbackNotices(factory_log) <= 1
    /\ FallbackTaken => FallbackNotices(factory_log) = 1

\* ================================================ claims on the tool order
ToolOrder == <<"retriever", "summarizer", "analyzer", "formatter", "citations">>
IsToolName(c) == c \in ToolNames
\* the tools a run invoked, in the order of their invocation
ToolCalls(calls) == SelectSeq(calls, IsToolName)
IsPrefix(s, t) == Len(s) <= Len(t) /\ s = SubSeq(t, 1, Len(s))

\* ---------------------------------------------------------------- C16
\* C16: in a run of either executor the tools invoked so far are an
\* initial part of retriever, summarizer, analyzer, formatter, citations:
\* the order is fixed, no tool runs twice, and a tool runs only after the
\* one before it; in the graph run the stage before it has then written
\* its output field.
FixedToolOrder ==
    /\ IsPrefix(ToolCalls(gcalls), ToolOrder)
    /\ \A res \in {gresult, sresult} :
          res # Pending => IsPrefix(ToolCalls(res.calls), ToolOrder)
    /\ Count("summarizer", gcalls) > 0 => state.retrieved_documents # <<>>
    /\ Count("analyzer", gcalls) > 0 => state.summarized_content # <<>>
    /\ Count("formatter", gcalls) > 0 => state.analysis_results # <<>>
FixedToolOrderWitness ==
    /\ BothDone
    /\ ToolCalls(gresult.calls) = ToolOrder
    /\ ToolCalls(sresult.calls) = ToolOrder

\* ================================================ claims on the attribution
\* retrieval returned chunks and both generation calls return
EveryStageSucceeds ==
    /\ RetrieverUsable
    /\ env.retr.out.kind = "return"
    /\ env.retr.out.val # <<>>
    /\ env.sumGen.kind = "return"
    /\ env.anaGen.kind = "return"
\* the source_file names of the retrieved chunks
SourceFiles ==
    {env.retr.out.val[i].metadata.source_file :
        i \in {j \in DOMAIN env.retr.out.val :
                  "source_file" \in DOMAIN env.retr.out.val[j].metadata}}

\* ---------------------------------------------------------------- C17
\* C17: when retrieval returns a chunk whose metadata names source_file F
\* and every stage succeeds, F occurs verbatim in the final output of
\* either executor, whatever text the generation calls return.
AttributionRoundTrip ==
    \A res \in {gresult, sresult} :
        (res # Pending /\ EveryStageSucceeds /\ env.retr.out.kind = "return")
        => \A F \in SourceFiles : Occurs(F, res.val)

\* ============================================ claims on the quality stage
\* the analysis the sequential executor hands to the formatter
SimpleAnalysis ==
    LET r == DocumentRetrieverTool_run(env.retr, query)
        s == ContentSummarizerTool_run(r.val, env.sumGen)
    IN DocumentAnalyzerTool_run(s.val, env.anaGen).val
\* Citation(Formatter(text))
Cited(text) == CitationManagerTool_run(ContentFormatterTool_run(text).val).val
FormatterBeforeCitations(calls) ==
    \A j \in DOMAIN calls :
        calls[j] = "citations" => \E i \in 1..(j - 1) : calls[i] = "formatter"

\* ---------------------------------------------------------------- C18
\* C18: in both executors the citation tool runs only after the formatter,
\* neither executor ends by raising, and when retrieval returned chunks
\* and both generation calls returned, the final output is
\* Citation(Formatter(analysis)).
CitationOfFormatted ==
    /\ GraphDone
          => /\ FormatterBeforeCitations(gresult.calls)
             /\ gresult.kind = "return"
             /\ EveryStageSucceeds => gresult.val = Cited(state.analysis_results)
    /\ SimpleDone
          => /\ FormatterBeforeCitations(sresult.calls)
             /\ sresult.kind = "return"
             /\ EveryStageSucceeds => sresult.val = Cited(SimpleAnalysis)

\* ============================================== single-document queries
\* display_enhanced_answer: the chat entry it appends; the source listing
\* before it is inside a bare try/except
AnswerEntry(q, result, doc) ==
    [query |-> q, response |-> result, document |-> doc, agent_generated |-> TRUE]

\* display_enhanced_fallback: history is the chat history it leaves and
\* raised whether generate_content let an exception out
Shown(history, raised, path) == [history |-> history, raised |-> raised, path |-> path]
display_enhanced_fallback(history, q, retriever, fbGen, doc) ==
    IF retriever.caps # {} /\ retriever.out.kind = "raise"
    THEN Shown(history, FALSE, "no retrieval")
    ELSE IF retriever.caps = {} \/ retriever.out.val = <<>>
    THEN Shown(history, FALSE, "no documents")
    ELSE IF fbGen.kind = "raise"
    THEN Shown(history, TRUE, "fallback failed")
    ELSE Shown(Append(history, [query |-> q, response |-> fbGen.val, document |-> doc,
                                agent_generated |-> FALSE,
                                sources_used |-> Len(retriever.out.val)]),
               FALSE, "fallback")

\* process_single_document_query for a retriever that is there; the
\* exception of the fallback is caught by the inner except
process_single_document_query(history, q, retriever, available, inp, doc) ==
    LET crew == get_multiagent_system(available, TRUE, inp.buildRaises)
        result == Kickoff(crew, q, [retr |-> retriever, sumGen |-> inp.sumGen,
                                    anaGen |-> inp.anaGen])
    IN IF result.kind = "return" /\ ~inp.displayRaises
       THEN Shown(Append(history, AnswerEntry(q, result.val, doc)), FALSE, "answer")
       ELSE LET fb == display_enhanced_fallback(history, q, retriever, inp.fbGen, doc)
            IN Shown(fb.history, FALSE, fb.path)

\* chat_tab calls process_single_document_query for the one selected
\* document only when it has a retriever (chat.py:92-97, 248-250).
InitSingle ==
    /\ AppIdle
    /\ ProbeIdle
    /\ PipelineIdle
    /\ ToolsIdle
    /\ QualityIdle
    /\ LANGGRAPH_AVAILABLE \in BOOLEAN
    /\ selected_docs = <<DocName(1)>>
    /\ document_retrievers \in
          {DictOver(Options(Len(selected_docs)), f) :
              f \in [Range(selected_docs) -> MultiRetrievers]}
    /\ chat_history = <<>>
    /\ mquery \in Queries
    /\ mpc = "single"
    /\ idx = 1
    /\ all_responses = <<>>
    /\ mlog = <<>>
    /\ factory_log = import_messages(LANGGRAPH_AVAILABLE)
    /\ processed_documents =
          DictOver(Options(Len(selected_docs)), [d \in Range(selected_docs) |-> DocumentInfo(d)])
    /\ document_vector_stores =
          DictOver(Options(Len(selected_docs)), [d \in Range(selected_docs) |-> <<"index of ">> \o d])
    /\ document_summaries =
          DictOver(<<DocName(1)>>, [d \in {DocName(1)} |-> <<"summary of ">> \o d])

ProcessSingle ==
    /\ mpc = "single"
    /\ \E inp \in MultiInputs :
          LET doc_name == selected_docs[1]
              r == process_single_document_query(chat_history, mquery,
                                                 DictVal(document_retrievers, doc_name),
                                                 LANGGRAPH_AVAILABLE, inp, doc_name)
          IN /\ chat_history' = r.history
             /\ mlog' = Append(mlog, [doc |-> doc_name, path |-> r.path,
                                      val |-> <<>>,
                                      crew |-> get_multiagent_system(
                                                   LANGGRAPH_AVAILABLE, TRUE, inp.buildRaises),
                                      buildRaised |-> LANGGRAPH_AVAILABLE /\ inp.buildRaises])
             /\ factory_log' = factory_log \o get_multiagent_system_messages(
                                                  LANGGRAPH_AVAILABLE, TRUE, inp.buildRaises)
    /\ mpc' = "returned"
    /\ UNCHANGED <<LANGGRAPH_AVAILABLE, document_retrievers, selected_docs, mquery, idx,
                   all_responses, pipeVars, toolVars, qualVars, storeVars, probeVars, appVars>>

InitChat == InitMulti \/ InitSingle
NextChat ==
    \/ ProcessDocument
    \/ StoreResponses
    \/ ProcessSingle

SpecChat == InitChat /\ [][NextChat]_vars

\* a target of the query did not get its answer from the pipeline
SomeTargetFailed == \E i \in DOMAIN mlog : mlog[i].path # "answer"

\* ---------------------------------------------------------------- C19
\* C19: no step of process_single_document_query or of
\* process_multi_document_query changes document_retrievers,
\* processed_documents, document_vector_stores or document_summaries,
\* whatever the outcome of each target.
StoreReadOnly ==
    [][UNCHANGED <<document_retrievers, processed_documents,
                   document_vector_stores, document_summaries>>]_vars
StoreReadOnlyWitness ==
    /\ mpc = "returned"
    /\ selected_docs # <<>>
    /\ SomeTargetFailed
    /\ chat_history # <<>>
    /\ Range(Keys(document_retrievers)) = Range(selected_docs)

\* ---------------------------------------------------------------- C20
\* C20: a graph run in which retrieval returned chunks and both generation
\* calls returned makes both generation calls and ends with a formatted
\* and cited final output, whatever the text of the chunks and of the
\* generated output.
NoSpuriousSkip ==
    (GraphDone /\ EveryStageSucceeds)
    => /\ Count("summarizer.generate_content", gresult.calls) = 1
       /\ Count("analyzer.generate_content", gresult.calls) = 1
       /\ Count("formatter", gresult.calls) = 1
       /\ Count("citations", gresult.calls) = 1
       /\ Occurs(FormatHeader, gresult.val)
       /\ Occurs(CiteFooter, gresult.val)

\* ======================================= the graph over a partial tool set
\* The agents read their tool from state["tools"]; here the graph runs from
\* a state that carries any subset of the five tools.
AgentEnvs == {e \in Envs : e.retr \in MultiRetrievers}
InitAgents ==
    /\ AppIdle
    /\ ProbeIdle
    /\ ToolsIdle
    /\ QualityIdle
    /\ MultiIdle
    /\ env \in AgentEnvs
    /\ query \in Queries
    /\ state \in {[initial_state(query) EXCEPT !.tools = T] : T \in SUBSET ToolNames}
    /\ node = EntryPoint
    /\ gcalls = <<>>
    /\ steps = <<"started">>
    /\ gresult = Pending
    /\ sresult = Pending

NextAgents ==
    \/ RetrieverNode
    \/ SummarizerNode
    \/ AnalystNode
    \/ QualityNode
    \/ GraphReturn

SpecAgents == InitAgents /\ [][NextAgents]_vars

RetrieverPlaceholder == <<"Retriever tool not available">>
SummarizerPlaceholder == <<"Summarizer tool not available">>
AnalyzerPlaceholder == <<"Analyzer tool not available">>
\* the run ended with text p, and it made none of the calls in banned
RelayedUntouched(p, banned) ==
    /\ gresult.val = p
    /\ \A c \in banned : Count(c, gresult.calls) = 0

\* ---------------------------------------------------------------- C21
\* C21: when the tool of the retriever, summarizer or analyst stage is
\* missing from the state, that stage writes its "... not available"
\* placeholder and the graph run returns this placeholder as its final
\* output, with no generation call after it and with no formatter or
\* citation call.
PlaceholderRelay ==
    GraphDone =>
        /\ "retriever" \notin state.tools
              => /\ state.retrieved_documents = RetrieverPlaceholder
                 /\ RelayedUntouched(RetrieverPlaceholder,
                                     {"summarizer.generate_content", "analyzer.generate_content",
                                      "formatter", "citations"})
        /\ ("retriever" \in state.tools /\ "summarizer" \notin state.tools)
              => /\ state.summarized_content = SummarizerPlaceholder
                 /\ RelayedUntouched(SummarizerPlaceholder,
                                     {"analyzer.generate_content", "formatter", "citations"})
        /\ ({"retriever", "summarizer"} \subseteq state.tools /\ "analyzer" \notin state.tools)
              => /\ state.analysis_results = AnalyzerPlaceholder
                 /\ RelayedUntouched(AnalyzerPlaceholder, {"formatter", "citations"})

\* ======================================================= the chat tab
\* the retriever process_single_document builds over a file's chunks
\* (document_processing.py:65-69, 106-111)
as_retriever(name, content) ==
    [caps |-> {"get_relevant_documents", "invoke"},
     out |-> Ret(<<[page_content |-> content,
                    metadata |-> [source_file |-> name, file_format |-> Extension(name)]]>>)]
TextOf(name) == <<"text of ">> \o name
AllWorks == Inp(GenWorks, GenWorks, GenWorks, FALSE, FALSE)

\* the loop of process_multi_document_query from position i on
RECURSIVE multi_loop(_, _, _, _, _, _, _)
multi_loop(responses, docs, i, retrievers, q, available, inp) ==
    IF i > Len(docs) THEN responses
    ELSE multi_loop(process_document(responses, docs[i], retrievers, q, available, inp).responses,
                    docs, i + 1, retrievers, q, available, inp)

\* process_multi_document_query: the chat history it leaves
process_multi_document_query(history, q, docs, retrievers, available, inp) ==
    LET responses == multi_loop(<<>>, docs, 1, retrievers, q, available, inp)
    IN IF responses # <<>>
       THEN Append(history, [query |-> q,
                             response |-> responses,
                             document |-> <<"Multiple Documents: ">> \o Join(docs),
                             agent_generated |-> TRUE,
                             multi_document |-> TRUE])
       ELSE history

RECURSIVE Repeated(_, _)
Repeated(msgs, k) == IF k = 0 THEN <<>> ELSE msgs \o Repeated(msgs, k - 1)

\* valid_defaults (chat.py:69)
valid_defaults(held, options) == SelectSeq(held, LAMBDA d : d \in Range(options))

Mode(doc, docs, cr, ready) ==
    [selected_document |-> doc, selected_documents |-> docs, current_retriever |-> cr,
     ready |-> ready]
\* mutant: single-document mode takes the first registered retriever
select_mode_FirstRetriever(sel, retrievers, old_document, old_retriever) ==
    IF sel = <<>>
    THEN Mode(old_document, <<>>, NoRetriever, FALSE)
    ELSE IF Len(sel) = 1
    THEN IF HasKey(retrievers, sel[1])
         THEN Mode(sel[1], sel, [mode |-> "single", retr |-> <<retrievers[1].val>>], TRUE)
         ELSE Mode(sel[1], sel, old_retriever, FALSE)
    ELSE Mode(<<"Multiple Documents">>, sel, [mode |-> "multi", retr |-> None],
              \A i \in DOMAIN sel : HasKey(retrievers, sel[i]))

\* the selection logic of chat_tab (chat.py:83-150): what it leaves in the
\* session and whether chat_tab goes on to the query (ready)
select_mode(sel, retrievers, old_document, old_retriever) ==
    IF sel = <<>>
    THEN Mode(old_document, <<>>, NoRetriever, FALSE)
    ELSE IF Len(sel) = 1
    THEN IF HasKey(retrievers, sel[1])
         THEN Mode(sel[1], sel, [mode |-> "single", retr |-> <<DictVal(retrievers, sel[1])>>], TRUE)
         ELSE Mode(sel[1], sel, old_retriever, FALSE)
    ELSE Mode(<<"Multiple Documents">>, sel, [mode |-> "multi", retr |-> None],
              \A i \in DOMAIN sel : HasKey(retrievers, sel[i]))

\* the first of the suggested questions (chat.py:175-182); the user may as
\* well type it
SuggestedQuestions == Queries
Reversed(seq) == [i \in DOMAIN seq |-> seq[Len(seq) + 1 - i]]
\* what the multiselect can return over the options: nothing, one
\* document, the first k documents, or all of them in the opposite order
Selections(options) ==
    {<<>>} \cup {<<options[i]>> : i \in DOMAIN options}
    \cup {SubSeq(options, 1, k) : k \in 2..Len(options)}
    \cup {Reversed(options)}

\* The session when the chat tab is used: n documents were processed, no
\* question was asked yet.
InitTab ==
    /\ ProbeIdle
    /\ PipelineIdle
    /\ ToolsIdle
    /\ QualityIdle
    /\ LANGGRAPH_AVAILABLE = TRUE
    /\ \E n \in 0..MaxShelf :
          /\ processed_documents = DictOver(Options(n), [d \in Range(Options(n)) |-> DocumentInfo(d)])
          /\ document_retrievers =
                DictOver(Options(n), [d \in Range(Options(n)) |-> as_retriever(d, TextOf(d))])
          /\ document_vector_stores =
                DictOver(Options(n), [d \in Range(Options(n)) |-> <<"index of ">> \o d])
          /\ combined_retriever = IF n = 0 THEN None ELSE <<as_retriever(DocName(1), TextOf(DocName(1)))>>
    /\ retriever_alias = Alias(TRUE, combined_retriever)
    /\ document_summaries = <<>>
    /\ chat_history = <<>>
    /\ selected_docs = <<>>
    /\ mquery = <<>>
    /\ mpc = "returned"
    /\ idx = 1
    /\ all_responses = <<>>
    /\ mlog = <<>>
    /\ factory_log = <<>>
    /\ summary_generating = {}
    /\ selected_document = <<"All Documents">>
    /\ selected_documents = <<>>
    /\ current_retriever = NoRetriever
    /\ query_input = <<>>
    /\ auto_process = FALSE
    /\ auto_query = <<>>
    /\ runs = <<>>
    /\ uploaded = <<>>
    /\ last_op = "init_session_state"
    /\ requested = NoRequest

tabFrame == <<LANGGRAPH_AVAILABLE, document_retrievers, mquery, mpc, idx, all_responses, mlog,
              storeVars, combined_retriever, retriever_alias, summary_generating, uploaded,
              requested, pipeVars, toolVars, qualVars, probeVars>>

\* One run of chat_tab.  sel is what the multiselect returns, text what the
\* query box holds when it is drawn, op the event that caused the run.
ChatTab(sel, text, op) ==
    /\ last_op' = op
    /\ UNCHANGED tabFrame
    /\ IF processed_documents = <<>>
       THEN \* chat.py:32-34: nothing is drawn
            /\ query_input' \in {query_input, <<>>}
            /\ UNCHANGED <<selected_docs, selected_document, selected_documents,
                           current_retriever, auto_process, auto_query, chat_history,
                           runs, factory_log>>
       ELSE LET m == select_mode(sel, document_retrievers, selected_document, current_retriever)
            IN /\ selected_docs' = sel
               /\ selected_document' = m.selected_document
               /\ selected_documents' = m.selected_documents
               /\ current_retriever' = m.current_retriever
               /\ IF ~m.ready
                  THEN \* chat.py:87, 97, 142: the query box is not drawn
                       /\ query_input' \in {query_input, <<>>}
                       /\ UNCHANGED <<auto_process, auto_query, chat_history, runs, factory_log>>
                  ELSE LET auto == auto_process /\ auto_query # <<>>
                           should_process == auto \/ (text # <<>> /\ ~auto_process)
                           current_query == IF auto THEN auto_query ELSE text
                           multi == m.current_retriever.mode = "multi"
                       IN /\ query_input' \in (IF auto THEN {text, auto_query} ELSE {text})
                          /\ auto_process' = IF auto THEN FALSE ELSE auto_process
                          /\ auto_query' = IF auto THEN <<>> ELSE auto_query
                          /\ IF should_process
                             THEN /\ Len(runs) < MaxChat
                                  /\ chat_history' =
                                        IF multi
                                        THEN process_multi_document_query(
                                                 chat_history, current_query,
                                                 m.selected_documents, document_retrievers,
                                                 LANGGRAPH_AVAILABLE, AllWorks)
                                        ELSE process_single_document_query(
                                                 chat_history, current_query,
                                                 m.current_retriever.retr[1],
                                                 LANGGRAPH_AVAILABLE, AllWorks,
                                                 m.selected_document).history
                                  /\ runs' = Append(runs,
                                                    [mode |-> m.current_retriever.mode,
                                                     selection |-> sel,
                                                     targets |-> IF multi THEN m.selected_documents
                                                                 ELSE <<>>,
                                                     retr |-> m.current_retriever.retr,
                                                     query |-> current_query])
                                  /\ factory_log' =
                                        factory_log \o
                                        Repeated(get_multiagent_system_messages(
                                                     LANGGRAPH_AVAILABLE, TRUE, FALSE),
                                                 IF multi THEN Len(m.selected_documents) ELSE 1)
                             ELSE UNCHANGED <<chat_history, runs, factory_log>>

Held == valid_defaults(selected_docs, Keys(processed_documents))
\* a rerun caused by a button that changes nothing (Export, Quick Export)
RerunTab == ChatTab(Held, query_input, "rerun")
\* the user changes the selection
SelectTab ==
    \E sel \in Selections(Keys(processed_documents)) :
        sel # Held /\ ChatTab(sel, query_input, "select")
\* the user submits a text in the query box, which is drawn
TypeTab ==
    /\ processed_documents # <<>>
    /\ select_mode(Held, document_retrievers, selected_document, current_retriever).ready
    /\ \E text \in Queries \cup {<<>>} :
          text # query_input /\ ChatTab(Held, text, "type")
\* the user presses a suggested question: the flags are set and the script
\* reruns before it reaches the query (chat.py:187-193)
SuggestTab ==
    /\ processed_documents # <<>>
    /\ LET m == select_mode(Held, document_retrievers, selected_document, current_retriever)
       IN /\ m.ready
          /\ selected_docs' = Held
          /\ selected_document' = m.selected_document
          /\ selected_documents' = m.selected_documents
          /\ current_retriever' = m.current_retriever
    /\ \E question \in SuggestedQuestions : auto_query' = question
    /\ auto_process' = TRUE
    /\ last_op' = "suggested"
    /\ UNCHANGED <<query_input, chat_history, runs, factory_log>>
    /\ UNCHANGED tabFrame

\* mutant: clearing the chat also forgets the selection
clear_chat_only_DropsSelection ==
    /\ chat_history' = <<>>
    /\ selected_docs' = <<>>
    /\ last_op' = "clear_chat_only"
    /\ UNCHANGED <<selected_document, selected_documents, current_retriever,
                   query_input, auto_process, auto_query, runs, factory_log>>
    /\ UNCHANGED tabFrame

\* sidebar.py:154-162
clear_chat_only ==
    /\ chat_history' = <<>>
    /\ last_op' = "clear_chat_only"
    /\ UNCHANGED <<selected_docs, selected_document, selected_documents, current_retriever,
                   query_input, auto_process, auto_query, runs, factory_log>>
    /\ UNCHANGED tabFrame

\* sidebar.py:165-193
sidebar_clear_all_data ==
    /\ chat_history' = <<>>
    /\ processed_documents' = <<>>
    /\ document_retrievers' = <<>>
    /\ document_vector_stores' = <<>>
    /\ document_summaries' = <<>>
    /\ summary_generating' = {}
    /\ combined_retriever' = None
    /\ selected_docs' = <<>>
    /\ selected_document' = <<"All Documents">>
    /\ selected_documents' = <<>>
    /\ retriever_alias' = Alias(FALSE, None)
    /\ last_op' = "clear_all_data"
    /\ UNCHANGED <<LANGGRAPH_AVAILABLE, mquery, mpc, idx, all_responses, mlog, factory_log,
                   current_retriever, query_input, auto_process, auto_query, runs, uploaded,
                   requested, pipeVars, toolVars, qualVars, probeVars>>

NextTab ==
    \/ RerunTab
    \/ SelectTab
    \/ TypeTab
    \/ SuggestTab
    \/ clear_chat_only
    \/ sidebar_clear_all_data

SpecTab == InitTab /\ [][NextTab]_vars

\* ---------------------------------------------------------------- C22
\* C22: a run of chat_tab that was caused by something other than a new
\* query (a button that only reruns the script, or a change of the
\* selection), with no suggested question waiting, executes no pipeline
\* and appends nothing to chat_history.
QueryExecutedOnce ==
    [][(last_op' \in {"rerun", "select"} /\ ~auto_process)
          => (runs' = runs /\ chat_history' = chat_history)]_vars

\* the retriever registered for document d
OwnRetriever(d) == <<DictVal(document_retrievers, d)>>

\* ---------------------------------------------------------------- C25
\* C25: after a run of chat_tab over a non-empty store with no document
\* selected current_retriever is None, and no pipeline was ever started
\* for an empty selection; a pipeline started with exactly one
\* document selected is the single-target one over that document's own
\* retriever; one started with two or more is the multi-target coordinator
\* over exactly the selected documents, each of which has a registered
\* retriever.
ModeSelection ==
    /\ (selected_docs = <<>> /\ last_op \in {"rerun", "select", "type"}
           /\ processed_documents # <<>>)
          => current_retriever = NoRetriever
    /\ \A i \in DOMAIN runs :
          LET run == runs[i]
          IN /\ run.selection # <<>>
             /\ Len(run.selection) = 1
                   => /\ run.mode = "single"
                      /\ processed_documents # <<>> => run.retr = OwnRetriever(run.selection[1])
             /\ Len(run.selection) >= 2
                   => /\ run.mode = "multi"
                      /\ run.targets = run.selection
                      /\ processed_documents # <<>>
                            => \A j \in DOMAIN run.targets :
                                  HasKey(document_retrievers, run.targets[j])
ModeSelectionWitness ==
    /\ Len(runs) = 2
    /\ runs[1].mode = "single"
    /\ runs[1].selection = <<DocName(2)>>
    /\ runs[2].mode = "multi"
    /\ Len(runs[2].targets) = 2
    /\ Len(chat_history[2].response) = 2

\* ---------------------------------------------------------------- C28
\* C28: clear_chat_only empties chat_history and changes no document
\* store, not combined_retriever and not the selection; the sidebar's
\* clear_all_data leaves chat_history, the four document stores and the
\* selection empty and combined_retriever None.
ClearEffects ==
    [][/\ last_op' = "clear_chat_only"
          => /\ chat_history' = <<>>
             /\ UNCHANGED <<processed_documents, document_retrievers, document_vector_stores,
                            document_summaries, combined_retriever, selected_docs,
                            selected_documents, selected_document>>
       /\ last_op' = "clear_all_data"
          => /\ chat_history' = <<>>
             /\ processed_documents' = <<>>
             /\ document_retrievers' = <<>>
             /\ document_vector_stores' = <<>>
             /\ document_summaries' = <<>>
             /\ combined_retriever' = None
             /\ selected_docs' = <<>>
             /\ selected_documents' = <<>>]_vars
ClearEffectsWitness ==
    /\ last_op = "clear_chat_only"
    /\ runs # <<>>
    /\ chat_history = <<>>
    /\ Len(selected_docs) = 2
    /\ Len(document_retrievers) = 2
    /\ combined_retriever # None

\* ------------------------------------------------- the session's stores
\* The Upload tab, the sidebar and the Summary tab change the four stores
\* of the session: process_documents, remove_document, the two summary
\* generators and the two clear_all_data functions.
FileNames == Range(Options(MaxShelf))
Contents == {<<"first text">>, <<"second text">>}
\* an uploaded file; no text can be extracted from one with empty content
UploadedFile == [name : FileNames, content : Contents \cup {<<>>}]
\* the files handed to process_documents: one file, or two files of
\* different names in the order of the names
Uploads ==
    {<<f>> : f \in UploadedFile}
        \cup {u \in UploadedFile \X UploadedFile :
                 \E a, b \in 1..MaxShelf : /\ a < b
                                           /\ u[1].name = DocName(a)
                                           /\ u[2].name = DocName(b)}

DictDel(d, k) == SelectSeq(d, LAMBDA item : item.key # k)
as_vector_store(name, content) == <<"index of ">> \o name \o <<": ">> \o content

\* document_processing.py:33-127: every failure ends in None, None, 0
process_single_document(uploaded_file) ==
    IF uploaded_file.content = <<>>
    THEN [retriever |-> None, vector_store |-> None, chunk_count |-> 0]
    ELSE [retriever |-> <<as_retriever(uploaded_file.name, uploaded_file.content)>>,
          vector_store |-> <<as_vector_store(uploaded_file.name, uploaded_file.content)>>,
          chunk_count |-> 1]

\* mutant: every uploaded file counts as new
new_files_All(uploaded_files, processed) == uploaded_files

\* document_processing.py:131
new_files(uploaded_files, processed) ==
    SelectSeq(uploaded_files, LAMBDA f : ~HasKey(processed, f.name))

\* the loop of process_documents (document_processing.py:146-171) over the
\* new files, on the three stores it writes
RECURSIVE process_loop(_, _)
process_loop(files, stores) ==
    IF files = <<>> THEN stores
    ELSE LET uploaded_file == Head(files)
             r == process_single_document(uploaded_file)
         IN process_loop(Tail(files),
                IF r.retriever # None /\ r.vector_store # None
                THEN [processed |-> DictSet(stores.processed, uploaded_file.name,
                                            DocumentInfo(uploaded_file.name)),
                      retrievers |-> DictSet(stores.retrievers, uploaded_file.name,
                                             r.retriever[1]),
                      vector_stores |-> DictSet(stores.vector_stores, uploaded_file.name,
                                                r.vector_store[1])]
                ELSE stores)

\* list(document_retrievers.values())[0]
first_retriever(retrievers) == <<retrievers[1].val>>

storeFrame ==
    <<LANGGRAPH_AVAILABLE, chat_history, selected_docs, mquery, mpc, idx, all_responses, mlog,
      factory_log, selected_documents, current_retriever, query_input, auto_process,
      auto_query, runs, pipeVars, toolVars, qualVars, probeVars>>

\* document_processing.py:129-202. uploaded keeps the files the loop went
\* through: none when nothing was new (133-135) and none when
\* get_free_embeddings raised before the loop (142, 200-202)
process_documents ==
    \E uploaded_files \in Uploads, embeddings_ok \in BOOLEAN :
        LET todo == new_files(uploaded_files, processed_documents)
            after == process_loop(todo, [processed |-> processed_documents,
                                         retrievers |-> document_retrievers,
                                         vector_stores |-> document_vector_stores])
        IN /\ requested' = NoRequest
           /\ IF todo = <<>>
              THEN /\ last_op' = "process_documents: nothing new"
                   /\ uploaded' = <<>>
                   /\ UNCHANGED <<processed_documents, document_retrievers,
                                  document_vector_stores, combined_retriever,
                                  retriever_alias>>
              ELSE IF ~embeddings_ok
              THEN /\ last_op' = "process_documents: no embeddings"
                   /\ uploaded' = <<>>
                   /\ UNCHANGED <<processed_documents, document_retrievers,
                                  document_vector_stores, combined_retriever,
                                  retriever_alias>>
              ELSE /\ last_op' = "process_documents"
                   /\ uploaded' = uploaded_files
                   /\ processed_documents' = after.processed
                   /\ document_retrievers' = after.retrievers
                   /\ document_vector_stores' = after.vector_stores
                   /\ IF after.retrievers # <<>>
                      THEN /\ combined_retriever' = first_retriever(after.retrievers)
                           /\ retriever_alias' =
                                 Alias(TRUE, first_retriever(after.retrievers))
                      ELSE UNCHANGED <<combined_retriever, retriever_alias>>
           /\ UNCHANGED <<document_summaries, summary_generating, selected_document,
                          storeFrame>>

\* mutant: the summary of the removed document stays
remove_document_KeepsSummary(doc_name) ==
    LET retrievers == DictDel(document_retrievers, doc_name)
    IN /\ processed_documents' = DictDel(processed_documents, doc_name)
       /\ document_retrievers' = retrievers
       /\ document_vector_stores' = DictDel(document_vector_stores, doc_name)
       /\ UNCHANGED document_summaries
       /\ selected_document' =
             IF selected_document = doc_name THEN <<"All Documents">> ELSE selected_document
       /\ combined_retriever' =
             IF retrievers # <<>> THEN first_retriever(retrievers) ELSE None
       /\ retriever_alias' = Alias(TRUE, combined_retriever')
       /\ last_op' = "remove_document"
       /\ uploaded' = <<>>
       /\ requested' = NoRequest
       /\ UNCHANGED <<summary_generating, storeFrame>>

\* document_processing.py:204-239
remove_document(doc_name) ==
    LET retrievers == DictDel(document_retrievers, doc_name)
    IN /\ processed_documents' = DictDel(processed_documents, doc_name)
       /\ document_retrievers' = retrievers
       /\ document_vector_stores' = DictDel(document_vector_stores, doc_name)
       /\ document_summaries' = DictDel(document_summaries, doc_name)
       /\ selected_document' =
             IF selected_document = doc_name THEN <<"All Documents">> ELSE selected_document
       /\ combined_retriever' =
             IF retrievers # <<>> THEN first_retriever(retrievers) ELSE None
       /\ retriever_alias' = Alias(TRUE, combined_retriever')
       /\ last_op' = "remove_document"
       /\ uploaded' = <<>>
       /\ requested' = NoRequest
       /\ UNCHANGED <<summary_generating, storeFrame>>

\* the sidebar shows a remove button for every processed document
\* (sidebar.py:110-123)
RemoveDocument == \E i \in DOMAIN processed_documents : remove_document(processed_documents[i].key)

\* what chat_model.generate_content does for one document's summary
SummaryOutcomes == {"text", "empty", "raises"}
\* without a chat model it is not called
NotCalled == "not called"
SummaryText(doc_name) == <<"summary of ">> \o doc_name

\* summary.py:24-82: None for an unknown document and for any exception,
\* else response.text
generate_document_summary_sync(doc_name, retrievers, outcome) ==
    IF ~HasKey(retrievers, doc_name) THEN None
    ELSE IF outcome = "raises" THEN None
    ELSE IF outcome = "empty" THEN <<<<>>>>
    ELSE <<SummaryText(doc_name)>>

SummaryEntry(summary) == [content |-> summary, model |-> <<"gemini-2.0-flash">>]

\* mutant: the marker is discarded only after a stored summary
summarize_KeepsMarker(doc_name, retrievers, outcome, sess) ==
    LET marked == sess.generating \cup {doc_name}
        summary == generate_document_summary_sync(doc_name, retrievers, outcome)
    IN IF summary # None /\ summary[1] # <<>>
       THEN [summaries |-> DictSet(sess.summaries, doc_name, SummaryEntry(summary[1])),
             generating |-> marked \ {doc_name}]
       ELSE [summaries |-> sess.summaries, generating |-> marked]

\* summary.py:91-122 and 144-169: mark, generate, store a truthy summary,
\* and discard the mark in the finally block
summarize(doc_name, retrievers, outcome, sess) ==
    LET marked == sess.generating \cup {doc_name}
        summary == generate_document_summary_sync(doc_name, retrievers, outcome)
    IN IF summary # None /\ summary[1] # <<>>
       THEN [summaries |-> DictSet(sess.summaries, doc_name, SummaryEntry(summary[1])),
             generating |-> marked \ {doc_name}]
       ELSE [summaries |-> sess.summaries, generating |-> marked \ {doc_name}]

RECURSIVE summarize_loop(_, _, _, _, _)
summarize_loop(doc_names, gen, i, retrievers, sess) ==
    IF i > Len(doc_names) THEN sess
    ELSE summarize_loop(doc_names, gen, i + 1, retrievers,
                        summarize(doc_names[i], retrievers, gen[i], sess))

summaryFrame ==
    <<processed_documents, document_retrievers, document_vector_stores, combined_retriever,
      retriever_alias, selected_document, storeFrame>>

\* what both generators do with a request (summary.py:86-89, 128-131: no
\* chat model, no change)
Summaries(op, doc_names, model_ok, gen) ==
    LET sess == IF model_ok
                THEN summarize_loop(doc_names, gen, 1, document_retrievers,
                                    [summaries |-> document_summaries,
                                     generating |-> summary_generating])
                ELSE [summaries |-> document_summaries, generating |-> summary_generating]
    IN /\ document_summaries' = sess.summaries
       /\ summary_generating' = sess.generating
       /\ requested' = [docs |-> doc_names, model_ok |-> model_ok, gen |-> gen]
       /\ uploaded' = <<>>
       /\ last_op' = op
       /\ UNCHANGED summaryFrame

\* summary.py:84-124; the buttons that call it name a document the session
\* knew when the page was drawn (ui.py:87, chat.py:117, chat.py:714)
generate_summary_for_document ==
    \E doc_name \in FileNames :
        \/ Summaries("generate_summary_for_document", <<doc_name>>, FALSE, <<NotCalled>>)
        \/ \E outcome \in SummaryOutcomes :
               Summaries("generate_summary_for_document", <<doc_name>>, TRUE, <<outcome>>)

\* summary.py:126-186, called with the documents that have no summary yet
\* (ui.py:140-148)
generate_all_summaries ==
    LET unsummarized_docs ==
            SelectSeq(Keys(processed_documents), LAMBDA d : ~HasKey(document_summaries, d))
    IN /\ unsummarized_docs # <<>>
       /\ \/ Summaries("generate_all_summaries", unsummarized_docs, FALSE,
                       [i \in DOMAIN unsummarized_docs |-> NotCalled])
          \/ \E gen \in [DOMAIN unsummarized_docs -> SummaryOutcomes] :
                 Summaries("generate_all_summaries", unsummarized_docs, TRUE, gen)

\* utils.py:6-14
utils_clear_all_data ==
    /\ processed_documents' = <<>>
    /\ document_retrievers' = <<>>
    /\ document_vector_stores' = <<>>
    /\ document_summaries' = <<>>
    /\ summary_generating' = {}
    /\ last_op' = "utils.clear_all_data"
    /\ uploaded' = <<>>
    /\ requested' = NoRequest
    /\ UNCHANGED <<combined_retriever, retriever_alias, selected_document, storeFrame>>

InitStore ==
    /\ AppIdle
    /\ ProbeIdle
    /\ PipelineIdle
    /\ ToolsIdle
    /\ QualityIdle
    /\ MultiIdle

NextStore ==
    \/ process_documents
    \/ RemoveDocument
    \/ generate_summary_for_document
    \/ generate_all_summaries
    \/ sidebar_clear_all_data
    \/ utils_clear_all_data

SpecStore == InitStore /\ [][NextStore]_vars

KeySet(d) == Range(Keys(d))

\* C23: after any sequence of process_documents, remove_document, summary
\* generation and clear-all operations, processed_documents,
\* document_retrievers and document_vector_stores have exactly the same key
\* set, and the keys of document_summaries are a subset of it.
StoreConsistency ==
    /\ KeySet(processed_documents) = KeySet(document_retrievers)
    /\ KeySet(document_retrievers) = KeySet(document_vector_stores)
    /\ KeySet(document_summaries) \subseteq KeySet(processed_documents)

\* a document was removed and a summarised one is still stored
StoreConsistencyWitness ==
    /\ last_op = "remove_document"
    /\ processed_documents # <<>>
    /\ document_summaries # <<>>
    /\ \E d \in FileNames : ~HasKey(processed_documents, d)

\* C24: after any sequence of process_documents, remove_document and
\* clear-all operations, combined_retriever is None exactly when
\* document_retrievers is empty, otherwise it is one of the values currently
\* in document_retrievers, and the retriever alias, when present, equals
\* combined_retriever.
CombinedRetrieverCurrent ==
    /\ (combined_retriever = None) <=> (document_retrievers = <<>>)
    /\ combined_retriever # None
          => \E i \in DOMAIN document_retrievers :
                 document_retrievers[i].val = combined_retriever[1]
    /\ retriever_alias.present => retriever_alias.val = combined_retriever

IsSummaryOp(op) == op \in {"generate_summary_for_document", "generate_all_summaries"}
SameEntry(before, after, k) ==
    HasKey(before, k) = HasKey(after, k)
        /\ (HasKey(before, k) => DictVal(before, k) = DictVal(after, k))

\* C26: after generate_summary_for_document or generate_all_summaries
\* finishes for a document, whether generation succeeded, returned nothing
\* or raised, that document is not in summary_generating; and
\* document_summaries gains or replaces an entry for a document only when
\* generation returned non-empty text.
MarkerReleased ==
    [][IsSummaryOp(last_op')
          => /\ \A i \in DOMAIN requested'.docs :
                    LET d == requested'.docs[i]
                    IN /\ d \notin summary_generating'
                       /\ ~SameEntry(document_summaries, document_summaries', d)
                             => /\ requested'.model_ok
                                /\ requested'.gen[i] = "text"
                                /\ DictVal(document_summaries', d).content # <<>>
             /\ \A d \in FileNames \ Range(requested'.docs) :
                    SameEntry(document_summaries, document_summaries', d)]_vars

\* one request whose generation raised for one document and returned text
\* for another: only the second has a summary, neither is marked
MarkerReleasedWitness ==
    /\ last_op = "generate_all_summaries"
    /\ requested.model_ok
    /\ \E i, j \in DOMAIN requested.docs :
          /\ requested.gen[i] = "raises"
          /\ requested.gen[j] = "text"
          /\ ~HasKey(document_summaries, requested.docs[i])
          /\ HasKey(document_summaries, requested.docs[j])
          /\ {requested.docs[i], requested.docs[j]} \cap summary_generating = {}

HeaderStarts(text) == {p \in DOMAIN text : text[p] = "DOCUMENT "}
\* the i-th of them
HeaderStart(text, i) ==
    CHOOSE p \in HeaderStarts(text) :
        Cardinality({q \in HeaderStarts(text) : q < p}) = i - 1
\* the name a chunk is attributed to
Attributed(doc) ==
    IF "source_file" \in DOMAIN doc.metadata THEN doc.metadata.source_file ELSE <<"Unknown">>
RetrievedChunks == probe.out.val
ToolFoundChunks ==
    /\ probed["tool"] # Pending
    /\ probe.caps # {}
    /\ probe.out.kind = "return"
    /\ RetrievedChunks # <<>>

\* C29: for a non-empty retrieval result, DocumentRetrieverTool.run emits
\* one attribution header per chunk, numbered from 1 in the retriever's
\* ranking order, carrying that chunk's source_file verbatim, and uses
\* "Unknown" when the chunk's metadata has no source_file key.
AttributionHeaders ==
    ToolFoundChunks
        => LET text == probed["tool"].val
           IN /\ probed["tool"].kind = "return"
              /\ Cardinality(HeaderStarts(text)) = Len(RetrievedChunks)
              /\ \A i \in DOMAIN RetrievedChunks :
                    LET p == HeaderStart(text, i)
                        name == Attributed(RetrievedChunks[i])
                    IN /\ p + 3 + Len(name) <= Len(text)
                       /\ text[p + 1] = Num(i)
                       /\ text[p + 2] = " - "
                       /\ SubSeq(text, p + 3, p + 2 + Len(name)) = name
                       /\ text[p + 3 + Len(name)] = " ("

\* the tool rendered two chunks, the first with a source_file and the
\* second without one
AttributionHeadersWitness ==
    /\ ToolFoundChunks
    /\ Len(RetrievedChunks) = 2
    /\ "source_file" \in DOMAIN RetrievedChunks[1].metadata
    /\ "source_file" \notin DOMAIN RetrievedChunks[2].metadata
    /\ HasTok(probed["tool"].val, "Unknown")
====
